---------------------------- MODULE Spec2Model ----------------------------
(***************************************************************************)
(* Model of the request-lifecycle engine of vue-api-kit (createApiClient). *)
(*                                                                         *)
(*  - SpecCsrf      the CSRF recovery response interceptor of one client   *)
(*  - SpecQuery     one query hook instance (refetch, cancel, hooks)       *)
(*  - SpecMutation  one mutation hook instance (mutate, upload progress)   *)
(*                                                                         *)
(* The transport (axios), the validator (zod) and the reactive cells (vue) *)
(* are external: their outcomes are inputs drawn from small sets.          *)
(***************************************************************************)
EXTENDS Integers, Sequences, FiniteSets, TLC

VARIABLES
    options,            \* client options: csrfRefreshEndpoint, onBeforeRequest
    isRefreshingCsrf,   \* let isRefreshingCsrf = false
    csrfRefreshPromise, \* let csrfRefreshPromise = null (0) or the id of the
                        \* refresh request whose promise it holds
    requests,           \* every request that went through client.request /
                        \* client.get, in order of creation
    q,                  \* the query definition: defined, onBeforeRequest,
                        \* params (schema)
    queryOptions,       \* the argument of the hook: onBeforeRequest,
                        \* loadOnMount, params (params or data), debounce
    created,            \* the query hook has been called
    data,               \* ref data (result): 0 or the payload of run i
    errorMessage,       \* ref errorMessage
    zodError,           \* ref zodError
    isLoading,          \* ref isLoading
    isDone,             \* ref isDone
    abortController,    \* the current AbortController (an id)
    aborted,            \* the controllers whose signal is aborted
    runs,               \* the invocations of refetch, in order of start
    calls,              \* the callbacks invoked so far: <<name, run>>
    isFirstLoad,        \* ref isFirstLoad
    scope,              \* the owning component: "setup" | "mounted" |
                        \* "unmounted"
    stopWatcher,        \* let stopWatcher: a watcher is running
    timer,              \* a debounced refetch is pending
    changes,            \* the watcher callbacks so far: for each the run it
                        \* led to, 0 while it waits for the debounce timer
    peer,               \* a second instance of the same query hook
    input,              \* the argument of a helper under study
    output,             \* what the helper returned
    m,                  \* the mutation definition: defined, onBeforeRequest,
                        \* isMultipart, data (schema), params (schema)
    mutationOptions,    \* the argument of the mutation hook
    mutData,            \* mutation hook: ref data (result)
    mutErrorMessage,    \* mutation hook: ref errorMessage
    mutZodError,        \* mutation hook: ref zodError
    mutIsLoading,       \* mutation hook: ref isLoading
    mutIsDone,          \* mutation hook: ref isDone
    uploadProgress,     \* mutation hook: ref uploadProgress
    mutRuns,            \* the mutate() invocations that passed the guard
    mutCalls,           \* the callbacks invoked so far: <<name, run>>
    mutDropped          \* mutate() calls that returned at the loading guard

csrfVars == <<isRefreshingCsrf, csrfRefreshPromise, requests>>

scopeVars == <<scope, stopWatcher, timer, changes>>

pureVars == <<input, output>>

queryVars == <<q, queryOptions, created, data, errorMessage, zodError,
               isLoading, isDone, abortController, aborted, runs, calls,
               isFirstLoad, scopeVars>>

mutationVars == <<m, mutationOptions, mutData, mutErrorMessage, mutZodError,
                  mutIsLoading, mutIsDone, uploadProgress, mutRuns, mutCalls,
                  mutDropped>>

vars == <<options, csrfVars, queryVars, mutationVars, peer, pureVars>>

(* ------------------------------ bounds ---------------------------------- *)

MaxUserRequests == 2    \* requests the application sends through the client
MaxRequests == 5        \* all requests, refresh calls included
MaxRuns == 3            \* refetch invocations of the query hook instance
MaxMutateCalls == 3     \* mutate() calls on the mutation hook instance
MaxTotal == 3           \* largest progressEvent.total
MaxChanges == 2         \* changes of the watched params/data
MaxPeerRuns == 2        \* refetch invocations of the second hook instance
MaxUrlParts == 3        \* parts of a URL template
MaxEntries == 2         \* entries of a params object
MaxLeaves == 2          \* leaves of a definition tree
MaxDepth == 3           \* depth of a definition tree
MaxFields == 2          \* failing fields of a validation error
MaxIssues == 2          \* messages of one failing field
MaxItems == 2           \* elements of an array, members of an object
MaxNesting == 2         \* nesting depth of a multipart data object
MaxObjects == 2         \* definition trees merged in one call
MaxDefinitions == 3     \* endpoint definitions in the merged trees
MaxMergeDepth == 2      \* depth of a merged definition tree
MaxRefetches == 2       \* consecutive refetch() calls with the same params

(* ----------------------------- constants -------------------------------- *)

Null == 0
NoEndpoint == ""
CsrfEndpoint == "/sanctum/csrf-cookie"
ApiUrl == "/api/users"

\* failure of a request: an HTTP status, or 0 for an error without response
NoResponse == 0
ErrorStatus == {NoResponse, 403, 419, 500}
OkStatus == 200

(* ======================================================================= *)
(*                            QUERY HOOK INSTANCE                          *)
(* ======================================================================= *)

Undefined == [kind |-> "undefined", by |-> 0]

InitQueryState ==
    /\ created = FALSE
    /\ data = 0
    /\ errorMessage = Undefined
    /\ zodError = Undefined
    /\ isLoading = FALSE
    /\ isDone = FALSE
    /\ abortController = 1
    /\ aborted = {}
    /\ runs = <<>>
    /\ calls = <<>>
    /\ isFirstLoad = TRUE
    /\ scope = "setup"
    /\ stopWatcher = FALSE
    /\ timer = FALSE
    /\ changes = <<>>

RunIds == 1..Len(runs)

\* a transport request of the hook that is on the wire and not aborted
InFlight(rs, ab) ==
    {i \in 1..Len(rs) : rs[i].pc = "inflight" /\ rs[i].signal \notin ab}

NewRun(signal, pc) ==
    [ pc |-> pc,              \* "defHook" | "optHook" | "request" |
                              \* "inflight" | "done"
      signal |-> signal,      \* requestConfig.signal
      cfg |-> <<>>,           \* the hooks that have changed requestConfig
      saw |-> <<>>,           \* the requestConfig each hook received
      dispatched |-> FALSE,   \* the request reached the transport
      superseded |-> FALSE,   \* a later refetch started while it was in flight
      valid |-> TRUE,         \* the caller's params/data pass the schemas
      promise |-> "pending",  \* the promise returned to the caller
      req |-> 0,              \* its request in requests, where modelled
      outcome |-> "pending" ]

ParseThrows_Never(valid) == FALSE
\* (schema as ZodType).parse(value) throws a ZodError on a mismatch
ParseThrows(valid) == ~valid

Returned_Rethrow(kind) ==
    IF kind \in {"axios", "zod", "unknown"} THEN "rejected" ELSE "resolved"
\* try { ... } catch (err) { ... } finally { ... }: nothing is rethrown
Returned(kind) == "resolved"

\* the continuation after the definition-level hook
AfterDefHook ==
    IF queryOptions.onBeforeRequest THEN "optHook" ELSE "request"

\* the first suspension point of refetch after request-side validation
FirstPc ==
    IF q.onBeforeRequest THEN "defHook" ELSE AfterDefHook

\* a hook runs on the request configuration of run r
ApplyHook(r, name) ==
    [r EXCEPT !.saw = Append(@, r.cfg), !.cfg = Append(@, name)]

ErrorCalls_GlobalFirst(i, kind) ==
    IF kind = "zod"
      THEN << <<"options.onError", i>>, <<"options.onZodError", i>>,
              <<"onError", i>>, <<"onZodError", i>> >>
      ELSE << <<"options.onError", i>>, <<"onError", i>> >>
ErrorCalls_ZodForAll(i, kind) ==
    << <<"onError", i>>, <<"onZodError", i>>,
       <<"options.onError", i>>, <<"options.onZodError", i>> >>
\* the callbacks a catch branch invokes, in order: call-site, then global
ErrorCalls(i, kind) ==
    IF kind = "zod"
      THEN << <<"onError", i>>, <<"onZodError", i>>,
              <<"options.onError", i>>, <<"options.onZodError", i>> >>
      ELSE << <<"onError", i>>, <<"options.onError", i>> >>

Payload_Unvalidated(i, kind, old) ==
    IF kind \in {"success", "zod"} THEN i ELSE old
\* data.value = parsedData, reached only where the response arrived and
\* passed q.response.parse; the payload of run i is written as i
Payload(i, kind, old) == IF kind = "success" THEN i ELSE old

\* the catch block of refetch, by the class of the thrown value, on behalf
\* of run i; "success" is the tail of the try block
Route(i, kind) ==
    CASE kind = "success" ->
           [data |-> Payload(i, kind, data),
            errorMessage |-> errorMessage, zodError |-> zodError,
            calls |-> <<<<"onResult", i>>>>]
      [] kind = "canceled" ->
           [data |-> data, errorMessage |-> errorMessage,
            zodError |-> zodError, calls |-> <<>>]
      [] kind = "axios" ->
           [data |-> Payload(i, kind, data),
            errorMessage |-> [kind |-> "axios", by |-> i],
            zodError |-> zodError, calls |-> ErrorCalls(i, kind)]
      [] kind = "zod" ->
           [data |-> Payload(i, kind, data),
            errorMessage |-> [kind |-> "zod", by |-> i],
            zodError |-> [kind |-> "zod", by |-> i],
            calls |-> ErrorCalls(i, kind)]
      [] kind = "unknown" ->
           [data |-> Payload(i, kind, data),
            errorMessage |-> [kind |-> "unknown", by |-> i],
            zodError |-> zodError, calls |-> ErrorCalls(i, kind)]

Finish_NoFinally(rs, i, kind) ==
    LET o == Route(i, kind) IN
    /\ runs' = [rs EXCEPT ![i].pc = "done", ![i].outcome = kind,
                          ![i].promise = Returned(kind)]
    /\ data' = o.data
    /\ errorMessage' = o.errorMessage
    /\ zodError' = o.zodError
    /\ calls' = calls \o o.calls
    /\ UNCHANGED <<isLoading, isDone>>
\* run i leaves refetch through catch/finally (or the end of try)
Finish(rs, i, kind) ==
    LET o == Route(i, kind) IN
    /\ runs' = [rs EXCEPT ![i].pc = "done", ![i].outcome = kind,
                          ![i].promise = Returned(kind)]
    /\ data' = o.data
    /\ errorMessage' = o.errorMessage
    /\ zodError' = o.zodError
    /\ calls' = calls \o o.calls
    /\ isLoading' = FALSE
    /\ isDone' = TRUE

\* run i goes on to its next suspension point; reaching client.request
\* resets the error state first
Proceed(rs, i, pc) ==
    /\ runs' = [rs EXCEPT ![i].pc = pc]
    /\ IF pc = "request"
         THEN errorMessage' = Undefined /\ zodError' = Undefined
         ELSE UNCHANGED <<errorMessage, zodError>>
    /\ UNCHANGED <<data, calls, isDone>>

\* const refetch = async () => { ... } up to its first suspension point
RefetchBody(valid) ==
    LET cancel == isLoading
        ctrl == IF cancel THEN abortController + 1 ELSE abortController
        ab == IF cancel THEN aborted \cup {abortController} ELSE aborted
        marked == [j \in RunIds |->
                     IF j \in InFlight(runs, aborted)
                       THEN [runs[j] EXCEPT !.superseded = TRUE]
                       ELSE runs[j]]
        i == Len(runs) + 1
    IN /\ abortController' = ctrl
       /\ aborted' = ab
       /\ IF ~ParseThrows(valid)
            THEN /\ runs' = Append(marked,
                       [NewRun(ctrl, FirstPc) EXCEPT !.valid = valid])
                 /\ isLoading' = TRUE
                 /\ errorMessage' = Undefined
                 /\ zodError' = IF FirstPc = "request" THEN Undefined
                                ELSE zodError
                 /\ UNCHANGED <<data, calls, isDone>>
            ELSE /\ runs' = Append(marked,
                       [NewRun(ctrl, "done") EXCEPT !.outcome = "zod",
                           !.valid = valid, !.promise = Returned("zod")])
                 /\ isLoading' = FALSE
                 /\ isDone' = TRUE
                 /\ data' = data
                 /\ errorMessage' = Route(i, "zod").errorMessage
                 /\ zodError' = Route(i, "zod").zodError
                 /\ calls' = calls \o Route(i, "zod").calls

\* queryOptions?.loadOnMount === undefined || queryOptions.loadOnMount
LoadOnMount(o) == o.loadOnMount \in {"undefined", "true"}

\* if (queryOptions?.params || queryOptions?.data): the hook registers its
\* onMounted and onBeforeUnmount callbacks
Registered(o) == o.params

BypassDebounce_Never(first) == FALSE
\* if (isFirstLoad.value) refetch() else debouncedRefetch()
BypassDebounce(first) == first

DebouncedRefetch_Immediate ==
    /\ timer' = timer
    /\ \E valid \in {TRUE} \cup {~q.params} : RefetchBody(valid)
\* debouncedRefetch(): refetch itself without a debounce interval, else the
\* (re)start of the timer whose expiry calls refetch
DebouncedRefetch ==
    IF queryOptions.debounce
      THEN /\ timer' = TRUE
           /\ UNCHANGED <<data, errorMessage, zodError, isLoading, isDone,
                          abortController, aborted, runs, calls>>
      ELSE /\ timer' = timer
           /\ \E valid \in {TRUE} \cup {~q.params} : RefetchBody(valid)

\* the component's setup calls the hook: api.query.x(paramsOrOptions); the
\* caller's params can fail validation only where the definition has a
\* params schema
UseQuery ==
    /\ q.defined
    /\ ~created
    /\ scope = "setup"
    /\ created' = TRUE
    /\ IF LoadOnMount(queryOptions) /\ ~isDone
         THEN IF BypassDebounce(isFirstLoad)
                THEN /\ isFirstLoad' = FALSE
                     /\ timer' = timer
                     /\ \E valid \in {TRUE} \cup {~q.params} :
                          RefetchBody(valid)
                ELSE /\ isFirstLoad' = isFirstLoad
                     /\ DebouncedRefetch
         ELSE UNCHANGED <<data, errorMessage, zodError, isLoading, isDone,
                          abortController, aborted, runs, calls,
                          isFirstLoad, timer>>
    /\ UNCHANGED <<options, csrfVars, mutationVars, q, queryOptions,
                   scope, stopWatcher, changes, peer, pureVars>>

\* refetch() called by the component or by the params/data watcher
Refetch ==
    /\ created
    /\ Len(runs) < MaxRuns
    /\ \E valid \in {TRUE} \cup {~q.params} : RefetchBody(valid)
    /\ UNCHANGED <<options, csrfVars, mutationVars, q, queryOptions, created,
                   isFirstLoad, scopeVars, peer, pureVars>>

\* await q.onBeforeRequest(requestConfig) settles
DefHookDone(i, throws) ==
    /\ runs[i].pc = "defHook"
    /\ LET rs == [runs EXCEPT ![i] = ApplyHook(@, "definition")] IN
       IF throws
         THEN Finish(rs, i, "unknown")
         ELSE Proceed(rs, i, AfterDefHook) /\ UNCHANGED isLoading
    /\ UNCHANGED <<options, csrfVars, mutationVars, q, queryOptions,
                   created, abortController, aborted, isFirstLoad, scopeVars,
                   peer, pureVars>>

\* await queryOptions.onBeforeRequest(requestConfig) settles
OptHookDone(i, throws) ==
    /\ runs[i].pc = "optHook"
    /\ LET rs == [runs EXCEPT ![i] = ApplyHook(@, "callsite")] IN
       IF throws
         THEN Finish(rs, i, "unknown")
         ELSE Proceed(rs, i, "request") /\ UNCHANGED isLoading
    /\ UNCHANGED <<options, csrfVars, mutationVars, q, queryOptions,
                   created, abortController, aborted, isFirstLoad, scopeVars,
                   peer, pureVars>>

\* client.request(requestConfig): the request interceptors run (the global
\* onBeforeRequest among them), then the transport is called unless the
\* signal is already aborted
Dispatch(i, throws) ==
    /\ runs[i].pc = "request"
    /\ throws => options.onBeforeRequest
    /\ LET rs == IF options.onBeforeRequest
                   THEN [runs EXCEPT ![i] = ApplyHook(@, "global")]
                   ELSE runs
       IN IF throws THEN Finish(rs, i, "unknown")
          ELSE IF runs[i].signal \in aborted THEN Finish(rs, i, "canceled")
          ELSE /\ runs' = [rs EXCEPT ![i].pc = "inflight",
                                     ![i].dispatched = TRUE]
               /\ UNCHANGED <<data, errorMessage, zodError, calls,
                              isLoading, isDone>>
    /\ UNCHANGED <<options, csrfVars, mutationVars, q, queryOptions,
                   created, abortController, aborted, isFirstLoad, scopeVars,
                   peer, pureVars>>

\* the transport settles the request of run i: a response that passes the
\* response schema, one that does not, or a transport failure
Respond(i, kind) ==
    /\ runs[i].pc = "inflight"
    /\ runs[i].signal \notin aborted
    /\ Finish(runs, i, kind)
    /\ UNCHANGED <<options, csrfVars, mutationVars, q, queryOptions,
                   created, abortController, aborted, isFirstLoad, scopeVars,
                   peer, pureVars>>

\* the aborted request of run i rejects with code ERR_CANCELED
Canceled(i) ==
    /\ runs[i].pc = "inflight"
    /\ runs[i].signal \in aborted
    /\ Finish(runs, i, "canceled")
    /\ UNCHANGED <<options, csrfVars, mutationVars, q, queryOptions,
                   created, abortController, aborted, isFirstLoad, scopeVars,
                   peer, pureVars>>

\* the component is mounted: the onMounted callback starts the watcher
Mount ==
    /\ scope = "setup"
    /\ created
    /\ scope' = "mounted"
    /\ stopWatcher' = Registered(queryOptions)
    /\ UNCHANGED <<options, csrfVars, mutationVars, q, queryOptions, created,
                   data, errorMessage, zodError, isLoading, isDone,
                   abortController, aborted, runs, calls, isFirstLoad, timer,
                   changes,
                   peer, pureVars>>

\* the component is unmounted: the onBeforeUnmount callback, where one was
\* registered, stops the watcher and aborts the current controller
Unmount ==
    /\ scope = "mounted"
    /\ scope' = "unmounted"
    /\ IF Registered(queryOptions)
         THEN /\ stopWatcher' = FALSE
              /\ aborted' = aborted \cup {abortController}
         ELSE UNCHANGED <<stopWatcher, aborted>>
    /\ UNCHANGED <<options, csrfVars, mutationVars, q, queryOptions, created,
                   data, errorMessage, zodError, isLoading, isDone,
                   abortController, runs, calls, isFirstLoad, timer, changes,
                   peer, pureVars>>

\* the watched params/data change: the watcher calls debouncedRefetch()
ParamsChange ==
    /\ stopWatcher
    /\ Len(runs) < MaxRuns
    /\ Len(changes) < MaxChanges
    /\ DebouncedRefetch
    /\ changes' = Append(changes, IF queryOptions.debounce THEN 0
                                  ELSE Len(runs) + 1)
    /\ UNCHANGED <<options, csrfVars, mutationVars, q, queryOptions, created,
                   isFirstLoad, scope, stopWatcher, peer, pureVars>>

\* the debounce interval elapses: the timer calls refetch()
DebounceFire ==
    /\ timer
    /\ Len(runs) < MaxRuns
    /\ timer' = FALSE
    /\ \E valid \in {TRUE} \cup {~q.params} : RefetchBody(valid)
    /\ changes' = [k \in DOMAIN changes |->
                     IF changes[k] = 0 THEN Len(runs) + 1 ELSE changes[k]]
    /\ UNCHANGED <<options, csrfVars, mutationVars, q, queryOptions, created,
                   isFirstLoad, scope, stopWatcher, peer, pureVars>>

(* ======================================================================= *)
(*                          MUTATION HOOK INSTANCE                         *)
(* ======================================================================= *)

InitMutationState ==
    /\ mutData = 0
    /\ mutErrorMessage = Undefined
    /\ mutZodError = Undefined
    /\ mutIsLoading = FALSE
    /\ mutIsDone = FALSE
    /\ uploadProgress = 0
    /\ mutRuns = <<>>
    /\ mutCalls = <<>>
    /\ mutDropped = 0

MutRunIds == 1..Len(mutRuns)

MutateGuard_Off == FALSE
\* if (isLoading.value) return;
MutateGuard == mutIsLoading

MutAfterDefHook ==
    IF mutationOptions.onBeforeRequest THEN "optHook" ELSE "request"

MutFirstPc ==
    IF m.onBeforeRequest THEN "defHook" ELSE MutAfterDefHook

Progress_Unscaled(loaded, total) == loaded * 100
\* Math.round((progressEvent.loaded * 100) / progressEvent.total)
Progress(loaded, total) == (2 * loaded * 100 + total) \div (2 * total)

\* the catch block of mutate, by the class of the thrown value; an AxiosError
\* is reported whatever its code
MutRoute(i, kind) ==
    CASE kind = "success" ->
           [data |-> Payload(i, kind, mutData),
            errorMessage |-> mutErrorMessage,
            zodError |-> mutZodError, calls |-> <<<<"onResult", i>>>>]
      [] kind \in {"axios", "canceled"} ->
           [data |-> Payload(i, kind, mutData),
            errorMessage |-> [kind |-> kind, by |-> i],
            zodError |-> mutZodError, calls |-> ErrorCalls(i, kind)]
      [] kind = "zod" ->
           [data |-> Payload(i, kind, mutData),
            errorMessage |-> [kind |-> "zod", by |-> i],
            zodError |-> [kind |-> "zod", by |-> i],
            calls |-> ErrorCalls(i, kind)]
      [] kind = "unknown" ->
           [data |-> Payload(i, kind, mutData),
            errorMessage |-> [kind |-> "unknown", by |-> i],
            zodError |-> mutZodError, calls |-> ErrorCalls(i, kind)]

MutFinish(rs, i, kind) ==
    LET o == MutRoute(i, kind) IN
    /\ mutRuns' = [rs EXCEPT ![i].pc = "done", ![i].outcome = kind,
                             ![i].promise = Returned(kind)]
    /\ mutData' = o.data
    /\ mutErrorMessage' = o.errorMessage
    /\ mutZodError' = o.zodError
    /\ mutCalls' = mutCalls \o o.calls
    /\ mutIsLoading' = FALSE
    /\ mutIsDone' = TRUE

MutProceed(rs, i, pc) ==
    /\ mutRuns' = [rs EXCEPT ![i].pc = pc]
    /\ IF pc = "request"
         THEN mutErrorMessage' = Undefined /\ mutZodError' = Undefined
         ELSE UNCHANGED <<mutErrorMessage, mutZodError>>
    /\ UNCHANGED <<mutData, mutCalls, mutIsDone, mutIsLoading>>

\* const mutate = async (args) => { ... } up to its first suspension point;
\* valid: args pass the data schema (checked unless multipart) and the
\* params schema
Mutate(valid) ==
    /\ m.defined
    /\ Len(mutRuns) + mutDropped < MaxMutateCalls
    /\ valid \/ (m.data /\ ~m.isMultipart) \/ m.params
    /\ IF MutateGuard
         THEN /\ mutDropped' = mutDropped + 1
              /\ UNCHANGED <<mutData, mutErrorMessage, mutZodError,
                             mutIsLoading, mutIsDone, uploadProgress,
                             mutRuns, mutCalls>>
         ELSE /\ uploadProgress' = 0
              /\ UNCHANGED mutDropped
              /\ LET i == Len(mutRuns) + 1 IN
                 IF ~ParseThrows(valid)
                   THEN /\ mutRuns' = Append(mutRuns,
                              [NewRun(0, MutFirstPc) EXCEPT !.valid = valid])
                        /\ mutIsLoading' = TRUE
                        /\ mutErrorMessage' = Undefined
                        /\ mutZodError' = IF MutFirstPc = "request"
                                            THEN Undefined ELSE mutZodError
                        /\ UNCHANGED <<mutData, mutCalls, mutIsDone>>
                   ELSE /\ mutRuns' = Append(mutRuns,
                              [NewRun(0, "done") EXCEPT !.outcome = "zod",
                                  !.valid = valid,
                                  !.promise = Returned("zod")])
                        /\ mutIsLoading' = FALSE
                        /\ mutIsDone' = TRUE
                        /\ mutData' = mutData
                        /\ mutErrorMessage' = MutRoute(i, "zod").errorMessage
                        /\ mutZodError' = MutRoute(i, "zod").zodError
                        /\ mutCalls' = mutCalls \o MutRoute(i, "zod").calls
    /\ UNCHANGED <<options, csrfVars, queryVars, m, mutationOptions,
                   peer, pureVars>>

\* await m.onBeforeRequest(requestConfig) settles
MutDefHookDone(i, throws) ==
    /\ mutRuns[i].pc = "defHook"
    /\ LET rs == [mutRuns EXCEPT ![i] = ApplyHook(@, "definition")] IN
       IF throws THEN MutFinish(rs, i, "unknown")
                 ELSE MutProceed(rs, i, MutAfterDefHook)
    /\ UNCHANGED <<options, csrfVars, queryVars, m, mutationOptions,
                   uploadProgress, mutDropped, peer, pureVars>>

\* await mutationOptions.onBeforeRequest(requestConfig) settles
MutOptHookDone(i, throws) ==
    /\ mutRuns[i].pc = "optHook"
    /\ LET rs == [mutRuns EXCEPT ![i] = ApplyHook(@, "callsite")] IN
       IF throws THEN MutFinish(rs, i, "unknown")
                 ELSE MutProceed(rs, i, "request")
    /\ UNCHANGED <<options, csrfVars, queryVars, m, mutationOptions,
                   uploadProgress, mutDropped, peer, pureVars>>

\* client.request(requestConfig): request interceptors, then the transport
MutDispatch(i, throws) ==
    /\ mutRuns[i].pc = "request"
    /\ throws => options.onBeforeRequest
    /\ LET rs == IF options.onBeforeRequest
                   THEN [mutRuns EXCEPT ![i] = ApplyHook(@, "global")]
                   ELSE mutRuns
       IN IF throws THEN MutFinish(rs, i, "unknown")
          ELSE /\ mutRuns' = [rs EXCEPT ![i].pc = "inflight",
                                        ![i].dispatched = TRUE]
               /\ UNCHANGED <<mutData, mutErrorMessage, mutZodError,
                              mutCalls, mutIsLoading, mutIsDone>>
    /\ UNCHANGED <<options, csrfVars, queryVars, m, mutationOptions,
                   uploadProgress, mutDropped, peer, pureVars>>

\* onUploadProgress(progressEvent) while the request of run i is in flight
UploadProgress(i, loaded, total) ==
    /\ mutRuns[i].pc = "inflight"
    /\ IF total # 0
         THEN uploadProgress' = Progress(loaded, total)
         ELSE UNCHANGED uploadProgress
    /\ UNCHANGED <<options, csrfVars, queryVars, m, mutationOptions,
                   mutData, mutErrorMessage, mutZodError, mutIsLoading,
                   mutIsDone, mutRuns, mutCalls, mutDropped, peer, pureVars>>

\* the transport settles the request of run i
MutRespond(i, kind) ==
    /\ mutRuns[i].pc = "inflight"
    /\ MutFinish(mutRuns, i, kind)
    /\ UNCHANGED <<options, csrfVars, queryVars, m, mutationOptions,
                   uploadProgress, mutDropped, peer, pureVars>>

(* ======================================================================= *)
(*                       CSRF RECOVERY INTERCEPTOR                         *)
(* ======================================================================= *)

NewRequest(kind, url, concurrent) ==
    [ kind |-> kind,            \* "user" | "refresh"
      url |-> url,
      retry |-> FALSE,          \* originalRequest._retry
      st |-> "inflight",        \* "inflight" | "awaitRefresh" | "settled"
      sends |-> <<FALSE>>,      \* the _retry marker of each dispatch
      resp |-> <<>>,            \* the status of each response received
      awaits |-> Null,          \* the refresh request it awaited
      started |-> 0,            \* refresh calls started on its behalf
      pendingAtFail |-> {},     \* refresh calls in flight when it failed
      overlap |-> concurrent,   \* user requests in flight when it was sent
      res |-> "pending",        \* what the caller got: "ok" | "err"
      errOf |-> Null,           \* the request whose failure the error is
      errStatus |-> NoResponse ]

Ids == 1..Len(requests)
UserIds == {i \in Ids : requests[i].kind = "user"}
RefreshIds == {i \in Ids : requests[i].kind = "refresh"}
InFlightRefresh(reqs) ==
    {k \in 1..Len(reqs) : reqs[k].kind = "refresh" /\ reqs[k].st # "settled"}

\* if (options.csrfRefreshEndpoint) client.interceptors.response.use(...)
CsrfEngaged == options.csrfRefreshEndpoint # NoEndpoint

LoopGuard_Off(url) == FALSE
\* if (originalRequest?.url === options.csrfRefreshEndpoint) reject
LoopGuard(url) == url = options.csrfRefreshEndpoint

IsCsrfError_AnyFailure(status, retry) == ~retry
IsCsrfError_IgnoreMarker(status, retry) ==
    status # NoResponse /\ status \in {403, 419}
\* error.response && (status === 403 || status === 419) && !_retry
IsCsrfError(status, retry) ==
    /\ status # NoResponse
    /\ status \in {403, 419}
    /\ ~retry

ReuseRefresh_Never == FALSE
\* if (isRefreshingCsrf && csrfRefreshPromise) await csrfRefreshPromise
ReuseRefresh == isRefreshingCsrf /\ csrfRefreshPromise # Null

ResetOnResolve_Missing ==
    [flag |-> isRefreshingCsrf, promise |-> csrfRefreshPromise]
\* .then(() => { isRefreshingCsrf = false; csrfRefreshPromise = null; })
ResetOnResolve == [flag |-> FALSE, promise |-> Null]

\* catch (refreshError) { isRefreshingCsrf = false; csrfRefreshPromise = null
ResetOnCatch == [flag |-> FALSE, promise |-> Null]

Rejected(r, of, status) ==
    [r EXCEPT !.st = "settled", !.res = "err", !.errOf = of,
              !.errStatus = status]

RetryOriginal_Dropped(r) == Rejected(r, Null, r.resp[Len(r.resp)])
\* return client.request(originalRequest): the same config, marker set
RetryOriginal(r) ==
    [r EXCEPT !.st = "inflight", !.sends = Append(@, r.retry)]

CatchRefreshError_Own(r, of, status) == Rejected(r, Null, r.resp[Len(r.resp)])
\* catch (refreshError) { ...; return Promise.reject(refreshError); }
CatchRefreshError(r, of, status) == Rejected(r, of, status)

\* the continuation of one request awaiting the promise of refresh call k,
\* once that call has settled
AfterAwait(r, k, reqs) ==
    IF reqs[k].res = "ok"
      THEN RetryOriginal(r)
      ELSE CatchRefreshError(r, reqs[k].errOf, reqs[k].errStatus)

Waiters(reqs, k) ==
    {w \in 1..Len(reqs) : reqs[w].st = "awaitRefresh" /\ reqs[w].awaits = k}

\* request i has settled (reqs[i] holds its outcome); if it is a refresh call
\* its promise settles and every request awaiting it continues
Settled(reqs, i) ==
    IF reqs[i].kind # "refresh"
      THEN [reqs |-> reqs, flag |-> isRefreshingCsrf,
            promise |-> csrfRefreshPromise]
      ELSE LET ws == Waiters(reqs, i)
               after == [w \in 1..Len(reqs) |->
                           IF w \in ws THEN AfterAwait(reqs[w], i, reqs)
                                       ELSE reqs[w]]
               fl == IF reqs[i].res = "ok" THEN ResetOnResolve
                     ELSE IF ws # {} THEN ResetOnCatch
                     ELSE [flag |-> isRefreshingCsrf,
                           promise |-> csrfRefreshPromise]
           IN [reqs |-> after, flag |-> fl.flag, promise |-> fl.promise]

\* the response-error handler of the CSRF interceptor, applied to request i
\* failing with the given status
CsrfDecision(r, status) ==
    IF ~CsrfEngaged THEN "reject"
    ELSE IF LoopGuard(r.url) THEN "reject"
    ELSE IF IsCsrfError(status, r.retry)
      THEN (IF ReuseRefresh THEN "join" ELSE "start")
    ELSE "reject"

InitCsrfState ==
    /\ isRefreshingCsrf = FALSE
    /\ csrfRefreshPromise = Null
    /\ requests = <<>>

\* application code calls client.request(config)
Request(url) ==
    /\ Cardinality(UserIds) < MaxUserRequests
    /\ Len(requests) < MaxRequests
    /\ requests' = Append(requests,
          NewRequest("user", url,
              {j \in UserIds : requests[j].st = "inflight"
                               /\ Len(requests[j].sends) = 1}))
    /\ UNCHANGED <<options, isRefreshingCsrf, csrfRefreshPromise>>
    /\ UNCHANGED <<queryVars, mutationVars, peer, pureVars>>

\* the transport answers request i with a success
RespondOk(i) ==
    /\ requests[i].st = "inflight"
    /\ LET r == [requests[i] EXCEPT !.resp = Append(@, OkStatus),
                                    !.st = "settled", !.res = "ok"]
           s == Settled([requests EXCEPT ![i] = r], i)
       IN /\ requests' = s.reqs
          /\ isRefreshingCsrf' = s.flag
          /\ csrfRefreshPromise' = s.promise
    /\ UNCHANGED <<options, queryVars, mutationVars, peer, pureVars>>

\* the transport fails request i: the response-error interceptor runs
RespondError(i, status) ==
    /\ requests[i].st = "inflight"
    /\ Len(requests) < MaxRequests
    /\ LET r == [requests[i] EXCEPT !.resp = Append(@, status)]
           d == CsrfDecision(r, status)
           pend == InFlightRefresh(requests)
       IN CASE d = "reject" ->
                 LET s == Settled(
                        [requests EXCEPT ![i] = Rejected(r, i, status)], i)
                 IN /\ requests' = s.reqs
                    /\ isRefreshingCsrf' = s.flag
                    /\ csrfRefreshPromise' = s.promise
            [] d = "start" ->
                 LET k == Len(requests) + 1
                     w == [r EXCEPT !.retry = TRUE, !.st = "awaitRefresh",
                                    !.awaits = k, !.started = @ + 1,
                                    !.pendingAtFail = pend]
                 IN /\ requests' = Append([requests EXCEPT ![i] = w],
                                      NewRequest("refresh",
                                          options.csrfRefreshEndpoint, {}))
                    /\ isRefreshingCsrf' = TRUE
                    /\ csrfRefreshPromise' = k
            [] d = "join" ->
                 LET k == csrfRefreshPromise
                     w == [r EXCEPT !.retry = TRUE, !.st = "awaitRefresh",
                                    !.awaits = k, !.pendingAtFail = pend]
                 IN IF requests[k].st # "settled" \/ k = i
                      THEN /\ requests' = [requests EXCEPT ![i] = w]
                           /\ UNCHANGED <<isRefreshingCsrf,
                                          csrfRefreshPromise>>
                      ELSE \* the promise has already settled
                           /\ requests' = [requests EXCEPT
                                  ![i] = AfterAwait(w, k, requests)]
                           /\ isRefreshingCsrf' =
                                IF requests[k].res = "ok"
                                  THEN isRefreshingCsrf
                                  ELSE ResetOnCatch.flag
                           /\ csrfRefreshPromise' =
                                IF requests[k].res = "ok"
                                  THEN csrfRefreshPromise
                                  ELSE ResetOnCatch.promise
    /\ UNCHANGED <<options, queryVars, mutationVars, peer, pureVars>>

(* ======================================================================= *)
(*                 A QUERY HOOK BEHIND THE CSRF INTERCEPTOR                *)
(* ======================================================================= *)

Resolves_FirstResponse(r) == r.resp[1] = OkStatus
\* const res = await client.request(requestConfig): resolves where the
\* interceptor chain handed a response back, throws where it rejected
Resolves(r) == r.res = "ok"

\* the ways run i can end once its request has settled: with a response,
\* which passes the response schema or not, or with the transport failure
Outcomes(r) == IF Resolves(r) THEN {"success", "zod"} ELSE {"axios"}

\* client.request(requestConfig) of run i on a client whose responses go
\* through the CSRF interceptor
DispatchThrough(i) ==
    /\ runs[i].pc = "request"
    /\ Cardinality(UserIds) < MaxUserRequests
    /\ Len(requests) < MaxRequests
    /\ IF runs[i].signal \in aborted
         THEN Finish(runs, i, "canceled") /\ UNCHANGED requests
         ELSE /\ requests' = Append(requests,
                    NewRequest("user", ApiUrl,
                        {j \in UserIds : requests[j].st = "inflight"
                                         /\ Len(requests[j].sends) = 1}))
              /\ runs' = [runs EXCEPT ![i].pc = "inflight",
                                      ![i].dispatched = TRUE,
                                      ![i].req = Len(requests) + 1]
              /\ UNCHANGED <<data, errorMessage, zodError, calls,
                             isLoading, isDone>>
    /\ UNCHANGED <<options, isRefreshingCsrf, csrfRefreshPromise,
                   mutationVars, q, queryOptions, created, abortController,
                   aborted, isFirstLoad, scopeVars, peer, pureVars>>

\* the promise of client.request settles for run i
Deliver(i, kind) ==
    /\ runs[i].pc = "inflight"
    /\ runs[i].req # 0
    /\ requests[runs[i].req].st = "settled"
    /\ kind \in Outcomes(requests[runs[i].req])
    /\ Finish(runs, i, kind)
    /\ UNCHANGED <<options, csrfVars, mutationVars, q, queryOptions,
                   created, abortController, aborted, isFirstLoad, scopeVars,
                   peer, pureVars>>

(* ======================================================================= *)
(*                 A SECOND INSTANCE OF THE SAME QUERY HOOK                *)
(* ======================================================================= *)

\* the refs and the AbortController the hook function creates for the call
NewPeer ==
    [ created |-> TRUE, data |-> 0, errorMessage |-> Undefined,
      isLoading |-> FALSE, isDone |-> FALSE, abortController |-> 1,
      aborted |-> {}, runs |-> <<>> ]

PeerIds == IF peer.created THEN 1..Len(peer.runs) ELSE {}

PeerAborted_Shared(p) == p.aborted \cup aborted
\* the controllers of the second instance whose signal is aborted: its
\* AbortController objects are its own
PeerAborted(p) == p.aborted

PeerInFlight ==
    {i \in PeerIds : /\ peer.runs[i].pc = "inflight"
                     /\ peer.runs[i].signal \notin PeerAborted(peer)}

\* refetch() of the second instance (no schemas, hooks or callbacks), up to
\* the dispatch of its request
PeerRefetched(p) ==
    LET ctrl == IF p.isLoading THEN p.abortController + 1
                ELSE p.abortController
        ab == IF p.isLoading THEN p.aborted \cup {p.abortController}
              ELSE p.aborted
    IN [p EXCEPT !.abortController = ctrl, !.aborted = ab,
                 !.isLoading = TRUE, !.errorMessage = Undefined,
                 !.runs = Append(@, [pc |-> "inflight", signal |-> ctrl,
                                     outcome |-> "pending"])]

\* try tail / catch / finally of refetch() of the second instance
PeerFinished(p, i, kind) ==
    [p EXCEPT !.runs[i].pc = "done", !.runs[i].outcome = kind,
              !.data = Payload(i, kind, @),
              !.errorMessage = IF kind = "axios"
                                 THEN [kind |-> "axios", by |-> i] ELSE @,
              !.isLoading = FALSE, !.isDone = TRUE]

\* another component calls the same hook: its first load starts at once
PeerUse ==
    /\ ~peer.created
    /\ peer' = PeerRefetched(NewPeer)
    /\ UNCHANGED <<options, csrfVars, queryVars, mutationVars, pureVars>>

PeerRefetch ==
    /\ peer.created
    /\ Len(peer.runs) < MaxPeerRuns
    /\ peer' = PeerRefetched(peer)
    /\ UNCHANGED <<options, csrfVars, queryVars, mutationVars, pureVars>>

PeerRespond(i, kind) ==
    /\ i \in PeerInFlight
    /\ peer' = PeerFinished(peer, i, kind)
    /\ UNCHANGED <<options, csrfVars, queryVars, mutationVars, pureVars>>

PeerCanceled(i) ==
    /\ peer.runs[i].pc = "inflight"
    /\ peer.runs[i].signal \in PeerAborted(peer)
    /\ peer' = PeerFinished(peer, i, "canceled")
    /\ UNCHANGED <<options, csrfVars, queryVars, mutationVars, pureVars>>

(* ======================================================================= *)
(*                      PATH PARAMETER INTERCEPTOR                         *)
(* ======================================================================= *)

\* a URL is a sequence of parts: literal text (a sequence of characters and
\* escapes) or a {key} token; an object is the sequence of its entries
Lit(text) == [t |-> "lit", v |-> text]
Token(key) == [t |-> "tok", v |-> <<key>>]

PathKeys == {"id", "slug"}
ParamKeys == PathKeys \cup {"q"}
ParamValues == {<<"7">>, <<"a", " ", "/">>}

\* encodeURIComponent, on the characters in use
EncodeChar(c) ==
    CASE c = " " -> "%20"
      [] c = "/" -> "%2F"
      [] OTHER -> c

\* encodeURIComponent(String(value))
Encode(value) == [k \in DOMAIN value |-> EncodeChar(value[k])]

\* config.url.includes(token)
Includes(url, key) == \E p \in DOMAIN url : url[p] = Token(key)

\* config.url.replace(token, encodeURIComponent(String(value))): a string
\* pattern replaces its first occurrence
ReplaceToken(url, key, value) ==
    LET first == CHOOSE p \in DOMAIN url :
                   /\ url[p] = Token(key)
                   /\ \A o \in 1..(p - 1) : url[o] # Token(key)
    IN [url EXCEPT ![first] = Lit(Encode(value))]

RECURSIVE ReplaceFrom(_, _, _)
\* the for loop of replaceParams from entry n on: the URL and the entries
\* that are left in the object
ReplaceFrom(url, entries, n) ==
    IF n > Len(entries) THEN [url |-> url, obj |-> <<>>]
    ELSE IF Includes(url, entries[n].key)
      THEN ReplaceFrom(ReplaceToken(url, entries[n].key, entries[n].value),
                       entries, n + 1)
      ELSE LET rest == ReplaceFrom(url, entries, n + 1)
           IN [rest EXCEPT !.obj = <<entries[n]>> \o @]

\* const replaceParams = (obj) => { ... }; an absent object is <<>>
ReplaceParams(url, obj) == ReplaceFrom(url, obj, 1)

\* the request interceptor: data.params first unless the method is get,
\* then params
ResolvePath(config) ==
    IF config.url = <<>> THEN [config EXCEPT !.mid = config.url]
    ELSE LET d == IF config.method # "get"
                    THEN ReplaceParams(config.url, config.dataParams)
                    ELSE [url |-> config.url, obj |-> config.dataParams]
             r == ReplaceParams(d.url, config.params)
         IN [config EXCEPT !.url = r.url, !.params = r.obj,
                           !.dataParams = d.obj, !.mid = d.url]

RECURSIVE SeqsUpTo(_, _)
\* the sequences over S of length at most n
SeqsUpTo(S, n) ==
    IF n = 0 THEN {<<>>}
    ELSE LET shorter == SeqsUpTo(S, n - 1)
         IN shorter \cup {Append(x, e) : x \in shorter, e \in S}

\* objects: entries with distinct keys
Objects(keys, n) ==
    {o \in SeqsUpTo([key : keys, value : ParamValues], n) :
       \A a, b \in DOMAIN o : a # b => o[a].key # o[b].key}

\* a request passes the path parameter interceptor
Intercept ==
    /\ input # <<>>
    /\ input.fn = "request"
    /\ output = <<>>
    /\ output' = ResolvePath(input.config)
    /\ UNCHANGED <<options, csrfVars, queryVars, mutationVars, peer, input>>

(* ======================================================================= *)
(*                    HOOK TREE FROM A DEFINITION TREE                     *)
(* ======================================================================= *)

\* a definition tree is written as the set of its leaves, [path, kind]: an
\* endpoint definition, an empty nested map or null; a path that leads on
\* to a leaf holds a nested map
TreeKeys == {"a", "b"}
LeafKinds == {"endpoint", "map", "null"}

IsPrefix(p, r) == Len(p) <= Len(r) /\ SubSeq(r, 1, Len(p)) = p

\* the application writes one more leaf into its definition tree
Define(path, kind) ==
    /\ input # <<>>
    /\ input.fn = "createQueryHooks"
    /\ output = <<>>
    /\ Cardinality(input.tree) < MaxLeaves
    /\ \A f \in input.tree : /\ ~IsPrefix(f.path, path)
                             /\ ~IsPrefix(path, f.path)
    /\ input' = [input EXCEPT !.tree = @ \cup {[path |-> path,
                                                 kind |-> kind]}]
    /\ UNCHANGED <<options, csrfVars, queryVars, mutationVars, peer, output>>

\* queriesDef[key] for the map at path prefix: what the tree holds there
ValueAt(tree, p) ==
    IF \E f \in tree : f.path = p
      THEN (CHOOSE f \in tree : f.path = p).kind
    ELSE IF \E f \in tree : IsPrefix(p, f.path) THEN "map"
    ELSE "undefined"

\* for (const key in queriesDef)
KeysAt(tree, prefix) ==
    {k \in TreeKeys : ValueAt(tree, Append(prefix, k)) # "undefined"}

IsApiQuery_AnyObject(value) == value \in {"endpoint", "map"}
\* obj && typeof obj === 'object' && typeof obj.path === 'string'
IsApiQuery(value) == value = "endpoint"

RECURSIVE CreateQueryHooks(_, _)
\* createQueryHooks(queriesDef) for the map at path prefix of the tree: the
\* entries of result, as [path, kind] with kind "hook" or "map"
CreateQueryHooks(tree, prefix) ==
    UNION { LET p == Append(prefix, k)
                value == ValueAt(tree, p)
            IN IF value = "null" THEN {}
               ELSE IF IsApiQuery(value)
                 THEN {[path |-> p, kind |-> "hook"]}
               ELSE IF value = "map"
                 THEN {[path |-> p, kind |-> "map"]}
                        \cup CreateQueryHooks(tree, p)
               ELSE {}
          : k \in KeysAt(tree, prefix) }

\* const useQueries = createQueryHooks(queriesDef)
CreateHooks ==
    /\ input # <<>>
    /\ input.fn = "createQueryHooks"
    /\ output = <<>>
    /\ output' = [hooks |-> CreateQueryHooks(input.tree, <<>>)]
    /\ UNCHANGED <<options, csrfVars, queryVars, mutationVars, peer, input>>

(* ======================================================================= *)
(*                     VALIDATION ERROR MESSAGE                            *)
(* ======================================================================= *)

Messages == {"Required", "Too short", "Invalid"}

RECURSIVE Join(_, _)
\* String(array): the elements joined by ","
Join(arr, n) ==
    IF n = 0 THEN <<>>
    ELSE IF n = 1 THEN <<arr[1]>>
    ELSE Join(arr, n - 1) \o <<",", arr[n]>>

\* `${Object.values(fieldErrors).at(0)}.${length > 1 ? ` (and ${length - 1}
\* more errors)` : ''}`: the text before the full stop and the number in
\* the suffix (0: no suffix); fieldErrors maps each failing field to the
\* array of its messages
ZodMessage(fieldErrors) ==
    LET length == Len(fieldErrors) IN
    [ text |-> IF length = 0 THEN <<"undefined">>
               ELSE Join(fieldErrors[1], Len(fieldErrors[1])),
      more |-> IF length > 1 THEN length - 1 ELSE 0 ]

\* the ZodError branch of the catch block formats the message
FormatZodError ==
    /\ input # <<>>
    /\ input.fn = "flattenError"
    /\ output = <<>>
    /\ output' = ZodMessage(input.fieldErrors)
    /\ UNCHANGED <<options, csrfVars, queryVars, mutationVars, peer, input>>

(* ======================================================================= *)
(*                  THE ARGUMENT OF A QUERY HOOK                           *)
(* ======================================================================= *)

OptionKeys_NoParams ==
    {"loadOnMount", "debounce", "onResult", "onError", "onZodError",
     "onBeforeRequest", "data"}
\* the keys tested by hasOptionsProps
OptionKeys ==
    {"loadOnMount", "debounce", "onResult", "onError", "onZodError",
     "onBeforeRequest", "params", "data"}

\* keys an argument can have: the option keys and a key of plain params
ArgKeys ==
    {"loadOnMount", "debounce", "onResult", "onError", "onZodError",
     "onBeforeRequest", "params", "data", "id"}

Absent == [kind |-> "undefined", keys |-> {}]
Whole(arg) == [kind |-> "whole", keys |-> arg]
Field(arg, key) ==
    IF key \in arg THEN [kind |-> "field", keys |-> {key}] ELSE Absent

\* the disambiguation of paramsOrOptions (an object, written as the set of
\* its keys) and what refetch then sends: params: queryOptions?.params
ParamsSent(arg) ==
    IF arg \cap OptionKeys # {}
      THEN Field(arg, "params")
      ELSE Whole(arg)

\* the hook is called with an object argument
CallHook ==
    /\ input # <<>>
    /\ input.fn = "useQuery"
    /\ output = <<>>
    /\ output' = [params |-> ParamsSent(input.arg)]
    /\ UNCHANGED <<options, csrfVars, queryVars, mutationVars, peer, input>>

(* ======================================================================= *)
(*                       MULTIPART BODY OF A MUTATION                      *)
(* ======================================================================= *)

\* A value of the data object: t is its type, items the elements of an
\* array or the members of an object (each member carries its key)
Primitives == {"string", "null", "undefined", "file"}
FieldKeys == {"f", "g"}
Element == ""           \* the key of an array element: it has none

RECURSIVE Values(_, _)
\* the values under a key in keys, nested at most n deep
Values(keys, n) ==
    [key : keys, t : Primitives, items : {<<>>}] \cup
    ( IF n = 0 THEN {}
      ELSE [key : keys, t : {"array"},
            items : SeqsUpTo(Values({Element}, n - 1), MaxItems)] \cup
           [key : keys, t : {"object"},
            items : {o \in SeqsUpTo(Values(FieldKeys, n - 1), MaxItems) :
                       \A a, b \in DOMAIN o :
                          a # b => o[a].key # o[b].key}] )

\* String(value) of a primitive
StringOf(value) ==
    CASE value.t = "string" -> <<"x">>
      [] value.t = "null" -> <<"null">>
      [] value.t = "undefined" -> <<"undefined">>
      [] OTHER -> <<"[object File]">>

RECURSIVE Stringify(_)
RECURSIVE Elements(_, _)
RECURSIVE Members(_, _)
\* JSON.stringify(value): the text as a sequence of tokens. An undefined
\* value has no JSON text and FormData.append turns it into "undefined";
\* a File has no enumerable property
Stringify(value) ==
    CASE value.t = "string" -> <<"\"x\"">>
      [] value.t = "null" -> <<"null">>
      [] value.t = "undefined" -> <<"undefined">>
      [] value.t = "file" -> <<"{}">>
      [] value.t = "array" ->
           <<"[">> \o Elements(value.items, Len(value.items)) \o <<"]">>
      [] OTHER ->
           LET kept == SelectSeq(value.items, LAMBDA e : e.t # "undefined")
           IN <<"{">> \o Members(kept, Len(kept)) \o <<"}">>

\* the elements of an array: an undefined element is written null
Elements(arr, n) ==
    IF n = 0 THEN <<>>
    ELSE LET text == IF arr[n].t = "undefined" THEN <<"null">>
                     ELSE Stringify(arr[n])
         IN IF n = 1 THEN text ELSE Elements(arr, n - 1) \o <<",">> \o text

\* the members of an object (undefined members are left out)
Members(obj, n) ==
    IF n = 0 THEN <<>>
    ELSE LET text == <<obj[n].key, ":">> \o Stringify(obj[n])
         IN IF n = 1 THEN text ELSE Members(obj, n - 1) \o <<",">> \o text

\* formData.append(key, value): key is a path of names, the key of a
\* top-level field being the path of length one
Part(key, isFile, text) == [key |-> key, file |-> isFile, text |-> text]

RECURSIVE AppendItems(_, _, _)
\* value.forEach(item => formData.append(key, ...)) for an array value
AppendItems(key, arr, n) ==
    IF n = 0 THEN <<>>
    ELSE Append(AppendItems(key, arr, n - 1),
                IF arr[n].t = "file" THEN Part(<<key>>, TRUE, <<>>)
                ELSE Part(<<key>>, FALSE, Stringify(arr[n])))

\* the parts appended for one entry of Object.entries(dataWithoutParams)
AppendEntry(e) ==
    CASE e.t = "file" -> <<Part(<<e.key>>, TRUE, <<>>)>>
      [] e.t = "array" -> AppendItems(e.key, e.items, Len(e.items))
      [] e.t = "object" -> <<Part(<<e.key>>, FALSE, Stringify(e))>>
      [] OTHER -> <<Part(<<e.key>>, FALSE, StringOf(e))>>

RECURSIVE FormData(_, _)
\* the multipart body built from the first n entries of the data object
FormData(entries, n) ==
    IF n = 0 THEN <<>>
    ELSE FormData(entries, n - 1) \o AppendEntry(entries[n])

\* mutate() of a multipart mutation builds the request body
EncodeMultipart ==
    /\ input # <<>>
    /\ input.fn = "mutate"
    /\ output = <<>>
    /\ output' = [requestData |-> FormData(input.data, Len(input.data)),
                  contentType |-> "multipart/form-data"]
    /\ UNCHANGED <<options, csrfVars, queryVars, mutationVars, peer, input>>

(* ======================================================================= *)
(*                     MERGING DEFINITION TREES                            *)
(* ======================================================================= *)

\* Object.entries(obj) of a map of a definition tree: its keys in order
KeyOrder == <<"a", "b">>

\* the application writes one more endpoint definition into the i-th
\* argument of mergeQueries or mergeMutations
DefineIn(i, path) ==
    /\ input # <<>>
    /\ input.fn = "deepMerge"
    /\ output = <<>>
    /\ Cardinality(UNION {input.objects[k] : k \in DOMAIN input.objects})
         < MaxDefinitions
    /\ \A f \in input.objects[i] : /\ ~IsPrefix(f.path, path)
                                   /\ ~IsPrefix(path, f.path)
    /\ input' = [input EXCEPT !.objects[i] =
                   @ \cup {[path |-> path, kind |-> "endpoint", from |-> i]}]
    /\ UNCHANGED <<options, csrfVars, queryVars, mutationVars, peer, output>>

IsNested_Never(value) == FALSE
\* value && typeof value === 'object' && !Array.isArray(value) &&
\* !('path' in value)
IsNested(value) == value = "map"

\* result[key] = value at key path p: what obj holds there replaces what
\* result held there
Assign(result, obj, p) ==
    {r \in result : ~IsPrefix(p, r.path)} \cup
    {f \in obj : IsPrefix(p, f.path)}

\* deepMerge(result[key] || {}, ...) starts from a copy of the entries of
\* result[key]: the copy of an endpoint definition is a new object with its
\* fields, no longer that definition
Copied(result, p) ==
    {IF r.path = p /\ r.kind = "endpoint" THEN [r EXCEPT !.kind = "copy"]
     ELSE r : r \in result}

RECURSIVE MergeInto(_, _, _, _)
\* the loop over the first n entries of the map of obj at key path prefix,
\* result[key] = deepMerge(result[key] || {}, value) included
MergeInto(result, obj, prefix, n) ==
    IF n = 0 THEN result
    ELSE LET before == MergeInto(result, obj, prefix, n - 1)
             p == Append(prefix, KeyOrder[n])
             value == ValueAt(obj, p)
         IN IF value = "undefined" THEN before
            ELSE IF IsNested(value)
              THEN MergeInto(Copied(before, p), obj, p, Len(KeyOrder))
            ELSE Assign(before, obj, p)

RECURSIVE DeepMerge(_, _)
\* deepMerge(...objects) over the first n objects
DeepMerge(objects, n) ==
    IF n = 0 THEN {}
    ELSE MergeInto(DeepMerge(objects, n - 1), objects[n], <<>>,
                   Len(KeyOrder))

\* mergeQueries(...queryDefinitions), mergeMutations(...mutationDefinitions)
Merge ==
    /\ input # <<>>
    /\ input.fn = "deepMerge"
    /\ output = <<>>
    /\ output' = [result |-> DeepMerge(input.objects, Len(input.objects))]
    /\ UNCHANGED <<options, csrfVars, queryVars, mutationVars, peer, input>>

(* ======================================================================= *)
(*               THE PARAMS OF CONSECUTIVE INVOCATIONS                     *)
(* ======================================================================= *)

\* (q.params as ZodType).parse(queryOptions.params) passes: the schema is
\* an object schema, given by the keys it requires
ParamsValid(schema, obj) ==
    \A key \in schema : \E e \in DOMAIN obj : obj[e].key = key

ParamsAfter_Shared(own, resolved) == resolved.params
\* The caller's params object after client.request(requestConfig): the
\* request interceptors receive the configuration that axios merged from
\* requestConfig, in which a plain params object is a copy, so replaceParams
\* deletes the entries of the copy
ParamsAfter(own, resolved) == own

\* one refetch() of a query hook up to the dispatch of its request:
\* validation, requestConfig, client.request with the path interceptor
RefetchWithParams ==
    /\ input # <<>>
    /\ input.fn = "refetch"
    /\ Len(output) < MaxRefetches
    /\ LET own == input.params
           valid == ParamsValid(input.schema, own)
           requestConfig == [url |-> input.path, mid |-> <<>>,
                             method |-> "get", params |-> own,
                             dataParams |-> <<>>]
           resolved == ResolvePath(requestConfig)
       IN IF valid
            THEN /\ output' = Append(output, [valid |-> TRUE,
                                              url |-> resolved.url,
                                              params |-> resolved.params])
                 /\ input' = [input EXCEPT
                                !.params = ParamsAfter(own, resolved)]
            ELSE /\ output' = Append(output, [valid |-> FALSE,
                                              url |-> <<>>,
                                              params |-> <<>>])
                 /\ input' = input
    /\ UNCHANGED <<options, csrfVars, queryVars, mutationVars, peer>>

(* ======================================================================= *)
(*                             SPECIFICATIONS                              *)
(* ======================================================================= *)

\* a client whose other hooks are not used in the specification at hand
NoMutation ==
    [defined |-> FALSE, onBeforeRequest |-> FALSE, isMultipart |-> FALSE,
     data |-> FALSE, params |-> FALSE]

NoQuery == [defined |-> FALSE, onBeforeRequest |-> FALSE, params |-> FALSE]

\* no second hook instance
NoPeer == [created |-> FALSE]

\* no helper under study
InitPureState ==
    /\ input = <<>>
    /\ output = <<>>

NoQueryOptions ==
    [onBeforeRequest |-> FALSE, loadOnMount |-> "false", params |-> FALSE,
     debounce |-> FALSE]

InitCsrf ==
    /\ options \in [csrfRefreshEndpoint : {NoEndpoint, CsrfEndpoint},
                    onBeforeRequest : {FALSE}]
    /\ InitCsrfState
    /\ q = NoQuery
    /\ queryOptions = NoQueryOptions
    /\ InitQueryState
    /\ m = NoMutation
    /\ mutationOptions = [onBeforeRequest |-> FALSE]
    /\ InitMutationState
    /\ peer = NoPeer
    /\ InitPureState

NextCsrf ==
    \/ \E url \in {ApiUrl, CsrfEndpoint} : Request(url)
    \/ \E i \in Ids : RespondOk(i)
    \/ \E i \in Ids, status \in ErrorStatus : RespondError(i, status)

SpecCsrf == InitCsrf /\ [][NextCsrf]_vars

InitQuery ==
    /\ options \in [csrfRefreshEndpoint : {NoEndpoint},
                    onBeforeRequest : BOOLEAN]
    /\ InitCsrfState
    /\ q \in [defined : {TRUE}, onBeforeRequest : BOOLEAN, params : BOOLEAN]
    /\ queryOptions \in [onBeforeRequest : BOOLEAN,
                         loadOnMount : {"true", "false"},
                         params : {FALSE}, debounce : {FALSE}]
    /\ InitQueryState
    /\ m = NoMutation
    /\ mutationOptions = [onBeforeRequest |-> FALSE]
    /\ InitMutationState
    /\ peer = NoPeer
    /\ InitPureState

NextQuery ==
    \/ UseQuery
    \/ Refetch
    \/ \E i \in RunIds, throws \in BOOLEAN : DefHookDone(i, throws)
    \/ \E i \in RunIds, throws \in BOOLEAN : OptHookDone(i, throws)
    \/ \E i \in RunIds, throws \in BOOLEAN : Dispatch(i, throws)
    \/ \E i \in RunIds, kind \in {"success", "zod", "axios"} : Respond(i, kind)
    \/ \E i \in RunIds : Canceled(i)

SpecQuery == InitQuery /\ [][NextQuery]_vars

InitMutation ==
    /\ options \in [csrfRefreshEndpoint : {NoEndpoint},
                    onBeforeRequest : BOOLEAN]
    /\ InitCsrfState
    /\ q = NoQuery
    /\ queryOptions = NoQueryOptions
    /\ InitQueryState
    /\ m \in [defined : {TRUE}, onBeforeRequest : BOOLEAN,
              isMultipart : BOOLEAN, data : BOOLEAN, params : BOOLEAN]
    /\ mutationOptions \in [onBeforeRequest : BOOLEAN]
    /\ InitMutationState
    /\ peer = NoPeer
    /\ InitPureState

NextMutation ==
    \/ \E valid \in BOOLEAN : Mutate(valid)
    \/ \E i \in MutRunIds, throws \in BOOLEAN : MutDefHookDone(i, throws)
    \/ \E i \in MutRunIds, throws \in BOOLEAN : MutOptHookDone(i, throws)
    \/ \E i \in MutRunIds, throws \in BOOLEAN : MutDispatch(i, throws)
    \/ \E i \in MutRunIds, total \in 0..MaxTotal :
         \E loaded \in 0..total : UploadProgress(i, loaded, total)
    \/ \E i \in MutRunIds, kind \in {"success", "zod", "axios", "canceled"} :
         MutRespond(i, kind)

SpecMutation == InitMutation /\ [][NextMutation]_vars

\* a query hook in its component: creation in setup, mount, changes of the
\* watched params, the debounce timer, unmount
InitScope ==
    /\ options = [csrfRefreshEndpoint |-> NoEndpoint,
                  onBeforeRequest |-> FALSE]
    /\ InitCsrfState
    /\ q = [defined |-> TRUE, onBeforeRequest |-> FALSE, params |-> FALSE]
    /\ queryOptions \in [onBeforeRequest : {FALSE},
                         loadOnMount : {"undefined", "true", "false"},
                         params : BOOLEAN, debounce : BOOLEAN]
    /\ InitQueryState
    /\ m = NoMutation
    /\ mutationOptions = [onBeforeRequest |-> FALSE]
    /\ InitMutationState
    /\ peer = NoPeer
    /\ InitPureState

NextScope ==
    \/ UseQuery
    \/ Mount
    \/ Unmount
    \/ ParamsChange
    \/ DebounceFire
    \/ Refetch
    \/ \E i \in RunIds : Dispatch(i, FALSE)
    \/ \E i \in RunIds, kind \in {"success", "zod", "axios"} : Respond(i, kind)
    \/ \E i \in RunIds : Canceled(i)

SpecScope == InitScope /\ [][NextScope]_vars

\* refetch() called by the owning component, which no longer does so once
\* it is unmounted
ComponentRefetch ==
    /\ scope # "unmounted"
    /\ Refetch

\* the same hook, left to itself after the teardown of its component
NextTeardown ==
    \/ UseQuery
    \/ Mount
    \/ Unmount
    \/ ParamsChange
    \/ DebounceFire
    \/ ComponentRefetch
    \/ \E i \in RunIds : Dispatch(i, FALSE)
    \/ \E i \in RunIds, kind \in {"success", "zod", "axios"} : Respond(i, kind)
    \/ \E i \in RunIds : Canceled(i)

SpecTeardown == InitScope /\ [][NextTeardown]_vars

\* a query hook loaded once at creation, and other requests of the
\* application, on a client with a CSRF refresh endpoint
InitRecovery ==
    /\ options = [csrfRefreshEndpoint |-> CsrfEndpoint,
                  onBeforeRequest |-> FALSE]
    /\ InitCsrfState
    /\ q = [defined |-> TRUE, onBeforeRequest |-> FALSE, params |-> FALSE]
    /\ queryOptions = [NoQueryOptions EXCEPT !.loadOnMount = "undefined"]
    /\ InitQueryState
    /\ m = NoMutation
    /\ mutationOptions = [onBeforeRequest |-> FALSE]
    /\ InitMutationState
    /\ peer = NoPeer
    /\ InitPureState

NextRecovery ==
    \/ UseQuery
    \/ \E i \in RunIds : DispatchThrough(i)
    \/ \E i \in RunIds, kind \in {"success", "zod", "axios"} : Deliver(i, kind)
    \/ Request(ApiUrl)
    \/ \E i \in Ids : RespondOk(i)
    \/ \E i \in Ids, status \in ErrorStatus : RespondError(i, status)

SpecRecovery == InitRecovery /\ [][NextRecovery]_vars

\* no hook in use: the client's helper functions on their own
InitIdle ==
    /\ options = [csrfRefreshEndpoint |-> NoEndpoint,
                  onBeforeRequest |-> FALSE]
    /\ InitCsrfState
    /\ q = NoQuery
    /\ queryOptions = NoQueryOptions
    /\ InitQueryState
    /\ m = NoMutation
    /\ mutationOptions = [onBeforeRequest |-> FALSE]
    /\ InitMutationState
    /\ peer = NoPeer

\* one request configuration on its way through the request interceptors
InitPath ==
    /\ InitIdle
    /\ input \in [fn : {"request"},
                  config : [url : SeqsUpTo({Lit(<<"/">>)} \cup
                                           {Token(k) : k \in PathKeys},
                                           MaxUrlParts),
                            mid : {<<>>},
                            method : {"get", "post"},
                            params : Objects(ParamKeys, MaxEntries),
                            dataParams : Objects({"id"}, 1)]]
    /\ output = <<>>

NextPath == Intercept

SpecPath == InitPath /\ [][NextPath]_vars

\* a definition tree written by the application and handed to
\* createApiClient
InitTree ==
    /\ InitIdle
    /\ input = [fn |-> "createQueryHooks", tree |-> {}]
    /\ output = <<>>

NextTree ==
    \/ \E path \in SeqsUpTo(TreeKeys, MaxDepth) \ {<<>>}, kind \in LeafKinds :
         Define(path, kind)
    \/ CreateHooks

SpecTree == InitTree /\ [][NextTree]_vars

\* a validation error caught by a hook
InitZodMessage ==
    /\ InitIdle
    /\ input \in [fn : {"flattenError"},
                  fieldErrors :
                    SeqsUpTo(SeqsUpTo(Messages, MaxIssues) \ {<<>>},
                             MaxFields)]
    /\ output = <<>>

NextZodMessage == FormatZodError

SpecZodMessage == InitZodMessage /\ [][NextZodMessage]_vars

\* an object passed to a query hook
InitArgs ==
    /\ InitIdle
    /\ input \in [fn : {"useQuery"}, arg : SUBSET ArgKeys]
    /\ output = <<>>

NextArgs == CallHook

SpecArgs == InitArgs /\ [][NextArgs]_vars

\* definition trees written by the application and handed to mergeQueries
\* or mergeMutations
InitMerge ==
    /\ InitIdle
    /\ input = [fn |-> "deepMerge", objects |-> [i \in 1..MaxObjects |-> {}]]
    /\ output = <<>>

NextMerge ==
    \/ \E i \in 1..MaxObjects,
          path \in SeqsUpTo(TreeKeys, MaxMergeDepth) \ {<<>>} :
         DefineIn(i, path)
    \/ Merge

SpecMerge == InitMerge /\ [][NextMerge]_vars

\* a query hook created with a params object for a path template
InitParams ==
    /\ InitIdle
    /\ input \in [fn : {"refetch"},
                  path : SeqsUpTo({Lit(<<"/">>)} \cup
                                  {Token(k) : k \in PathKeys}, MaxUrlParts),
                  schema : SUBSET PathKeys,
                  params : Objects(ParamKeys, MaxEntries)]
    /\ output = <<>>

NextParams == RefetchWithParams

SpecParams == InitParams /\ [][NextParams]_vars

\* the data object passed to mutate() of a multipart mutation
InitMultipart ==
    /\ InitIdle
    /\ input \in [fn : {"mutate"},
                  data : {o \in SeqsUpTo(Values(FieldKeys, MaxNesting - 1),
                                         MaxItems) :
                            \A a, b \in DOMAIN o :
                               a # b => o[a].key # o[b].key}]
    /\ output = <<>>

NextMultipart == EncodeMultipart

SpecMultipart == InitMultipart /\ [][NextMultipart]_vars

\* two components, each with its own instance of the same query hook
InitPeers ==
    /\ options = [csrfRefreshEndpoint |-> NoEndpoint,
                  onBeforeRequest |-> FALSE]
    /\ InitCsrfState
    /\ q = [defined |-> TRUE, onBeforeRequest |-> FALSE, params |-> FALSE]
    /\ queryOptions \in [onBeforeRequest : {FALSE},
                         loadOnMount : {"true", "false"},
                         params : {TRUE}, debounce : {FALSE}]
    /\ InitQueryState
    /\ m = NoMutation
    /\ mutationOptions = [onBeforeRequest |-> FALSE]
    /\ InitMutationState
    /\ peer = NoPeer
    /\ InitPureState

NextPeers ==
    \/ UseQuery
    \/ Mount
    \/ Unmount
    \/ Refetch
    \/ \E i \in RunIds : Dispatch(i, FALSE)
    \/ \E i \in RunIds, kind \in {"success", "axios"} : Respond(i, kind)
    \/ \E i \in RunIds : Canceled(i)
    \/ PeerUse
    \/ PeerRefetch
    \/ \E i \in PeerIds, kind \in {"success", "axios"} : PeerRespond(i, kind)
    \/ \E i \in PeerIds : PeerCanceled(i)

SpecPeers == InitPeers /\ [][NextPeers]_vars

\* a client with one hook instance, of a query or of a mutation
InitHooks == InitQuery \/ InitMutation

NextHooks == NextQuery \/ NextMutation

SpecHooks == InitHooks /\ [][NextHooks]_vars

(* ----------------------- claims: CSRF recovery -------------------------- *)

Overlapped(a, b) == a \in requests[b].overlap \/ b \in requests[a].overlap

FirstFailed(i, statuses) ==
    /\ requests[i].url # options.csrfRefreshEndpoint
    /\ Len(requests[i].resp) >= 1
    /\ requests[i].resp[1] \in statuses

C6_ReplayOnce ==
    CsrfEngaged =>
      \A i \in UserIds :
        FirstFailed(i, {403, 419}) =>
          /\ requests[i].awaits # Null
          /\ requests[requests[i].awaits].res = "ok" =>
               /\ requests[i].sends = <<FALSE, TRUE>>
               /\ Len(requests[i].resp) <= 2
               /\ requests[i].st = "settled" =>
                    /\ Len(requests[i].resp) = 2
                    /\ IF requests[i].resp[2] = OkStatus
                         THEN requests[i].res = "ok"
                         ELSE /\ requests[i].res = "err"
                              /\ requests[i].errOf = i
                              /\ requests[i].errStatus = requests[i].resp[2]

C6_Witness ==
    \E i \in UserIds :
      /\ FirstFailed(i, {419})
      /\ requests[i].awaits # Null
      /\ requests[requests[i].awaits].res = "ok"
      /\ requests[i].st = "settled"
      /\ requests[i].resp = <<419, OkStatus>>
      /\ requests[i].res = "ok"

\* C7: a request already re-sent once that fails again with 403 or 419 is
\* rejected with that error; no further refresh call, no further re-send.
C7_NoSecondRetry ==
    \A i \in UserIds :
      /\ Len(requests[i].sends) <= 2
      /\ requests[i].started <= 1
      /\ (Len(requests[i].resp) >= 2 /\ requests[i].resp[2] \in {403, 419})
           => /\ requests[i].st = "settled"
              /\ requests[i].res = "err"
              /\ requests[i].errOf = i
              /\ requests[i].errStatus = requests[i].resp[2]
              /\ Len(requests[i].resp) = 2
              /\ requests[requests[i].awaits].st = "settled"

C7_Witness ==
    \E i \in UserIds :
      /\ requests[i].retry
      /\ Len(requests[i].resp) = 2
      /\ requests[i].resp[2] \in {403, 419}
      /\ requests[i].res = "err"

\* C8: when the refresh call fails, every request awaiting it is rejected
\* with the refresh call's error and none of them is re-sent.
C8_RefreshFailurePropagates ==
    \A i \in UserIds :
      LET k == requests[i].awaits IN
      (k # Null /\ requests[k].st = "settled" /\ requests[k].res = "err")
        => /\ requests[i].st = "settled"
           /\ requests[i].res = "err"
           /\ requests[i].errOf = k
           /\ requests[i].errStatus = requests[k].errStatus
           /\ Len(requests[i].sends) = 1

C8_Witness ==
    \E a, b \in UserIds :
      /\ a # b
      /\ requests[a].awaits # Null
      /\ requests[a].awaits = requests[b].awaits
      /\ requests[requests[a].awaits].res = "err"
      /\ requests[a].res = "err" /\ requests[b].res = "err"
      /\ requests[a].errStatus # requests[a].resp[1]

\* C9: a failed request to the refresh endpoint itself is rejected as it is,
\* whatever its status: no marker, no refresh call, no re-send.
C9_RefreshEndpointNeverRetried ==
    CsrfEngaged =>
      \A i \in Ids :
        requests[i].url = options.csrfRefreshEndpoint =>
          /\ ~requests[i].retry
          /\ requests[i].awaits = Null
          /\ requests[i].started = 0
          /\ Len(requests[i].sends) = 1
          /\ (Len(requests[i].resp) = 1 /\ requests[i].resp[1] # OkStatus)
               => /\ requests[i].st = "settled"
                  /\ requests[i].res = "err"
                  /\ requests[i].errOf = i
                  /\ requests[i].errStatus = requests[i].resp[1]

C9_Witness ==
    \E i \in RefreshIds :
      /\ requests[i].resp = <<419>>
      /\ requests[i].res = "err"
      /\ requests[i].errOf = i

\* C10: once no refresh call is in progress the flag and the shared promise
\* are cleared, and a 403/419 failure arriving then starts a new refresh call.
C10_RefreshStateCleared ==
    /\ InFlightRefresh(requests) = {}
         => (~isRefreshingCsrf /\ csrfRefreshPromise = Null)
    /\ \A i \in UserIds :
         (requests[i].awaits # Null /\ requests[i].pendingAtFail = {})
           => requests[i].started = 1

C10_Witness ==
    \E a, b \in UserIds :
      /\ requests[a].started = 1 /\ requests[b].started = 1
      /\ requests[a].awaits < requests[b].awaits
      /\ requests[requests[a].awaits].res = "err"
      /\ ~isRefreshingCsrf /\ csrfRefreshPromise = Null

\* C11: a failure with a status other than 403 and 419, or without a
\* response, is rejected with the original error: no refresh call, no re-send.
C11_OtherFailuresPassThrough ==
    \A i \in Ids :
      (Len(requests[i].resp) >= 1
         /\ requests[i].resp[1] \notin {403, 419, OkStatus})
        => /\ requests[i].st = "settled"
           /\ requests[i].res = "err"
           /\ requests[i].errOf = i
           /\ requests[i].errStatus = requests[i].resp[1]
           /\ ~requests[i].retry
           /\ requests[i].awaits = Null
           /\ requests[i].started = 0
           /\ Len(requests[i].sends) = 1
           /\ Len(requests[i].resp) = 1

C11_Witness ==
    /\ CsrfEngaged
    /\ \E a, b \in UserIds :
         /\ requests[a].url = ApiUrl /\ requests[b].url = ApiUrl
         /\ requests[a].resp = <<500>> /\ requests[a].res = "err"
         /\ requests[b].resp = <<NoResponse>> /\ requests[b].res = "err"
         /\ RefreshIds = {}

(* -------------------------- claims: query hook -------------------------- *)

\* C2: at most one transport request of a query hook instance is in flight
\* at any time.
C2_AtMostOneInFlight ==
    Cardinality(InFlight(runs, aborted)) <= 1

HookConfigured(h) ==
    CASE h = "global" -> options.onBeforeRequest
      [] h = "definition" -> q.onBeforeRequest
      [] h = "callsite" -> queryOptions.onBeforeRequest

ClaimedHookOrder ==
    SelectSeq(<<"global", "definition", "callsite">>, HookConfigured)

\* C3: for every invocation that reaches dispatch the before-request hooks
\* have run in the order global, definition, call-site, each receiving the
\* request configuration as left by the previous one.
C3_HookOrderGlobalFirst ==
    \A i \in RunIds :
      runs[i].dispatched =>
        /\ runs[i].cfg = ClaimedHookOrder
        /\ \A k \in 1..Len(runs[i].saw) :
             runs[i].saw[k] = SubSeq(ClaimedHookOrder, 1, k - 1)

\* C18: where two or more before-request hooks are configured and set the
\* same header, the dispatched request carries the value of the configured
\* hook that is last in the order global, definition, call-site.
C18_LaterInOrderWins ==
    \A i \in RunIds :
      (runs[i].dispatched /\ Len(ClaimedHookOrder) >= 2) =>
        runs[i].cfg[Len(runs[i].cfg)]
          = ClaimedHookOrder[Len(ClaimedHookOrder)]

\* C13: the step that tears the owning component down leaves no watcher
\* running and every request of the hook that is still under way aborted,
\* whether or not the hook was created with params or data.
C13_TeardownStopsAndAborts ==
    [][ (scope = "mounted" /\ scope' = "unmounted") =>
          /\ ~stopWatcher'
          /\ \A i \in RunIds :
               runs[i].pc # "done" => runs[i].signal \in aborted' ]_vars

\* C20: the creation of a query hook starts exactly one execution at once,
\* with no debounce timer, where loadOnMount is unset or true, and starts none
\* where it is false.
C20_CreationLoadsOnceAtOnce ==
    [][ (~created /\ created') =>
          /\ timer' = FALSE
          /\ IF queryOptions.loadOnMount = "false"
               THEN runs' = runs
               ELSE Len(runs') = Len(runs) + 1 ]_vars

C20_Witness ==
    /\ created
    /\ scope = "setup"
    /\ queryOptions.debounce
    /\ queryOptions.loadOnMount = "undefined"
    /\ Len(runs) = 1
    /\ ~timer

\* C4: an invocation that was still in flight when the next refetch() started
\* never populates result or errorMessage and causes no callback.
C4_SupersededIsSilent ==
    \A i \in RunIds :
      runs[i].superseded =>
        /\ data # i
        /\ errorMessage.by # i
        /\ \A k \in 1..Len(calls) : calls[k][2] # i

(* ------------------------ claims: mutation hook ------------------------- *)

\* C5: a mutate() call made while the hook is loading dispatches nothing, so
\* a mutation hook instance never has two invocations under way, and so never
\* two requests in flight.
C5_MutateGuarded ==
    /\ Cardinality({i \in MutRunIds : mutRuns[i].pc # "done"}) <= 1
    /\ Cardinality({i \in MutRunIds : mutRuns[i].pc = "inflight"}) <= 1
    /\ mutIsLoading <=> (\E i \in MutRunIds : mutRuns[i].pc # "done")

C5_Witness ==
    /\ mutDropped > 0
    /\ \E i \in MutRunIds : mutRuns[i].pc = "inflight"
    /\ Len(mutRuns) = 1

(* ------------------- claims: query and mutation hooks ------------------- *)

AllDone(rs) == Len(rs) > 0 /\ \A i \in 1..Len(rs) : rs[i].pc = "done"

Has(cs, name, i) == \E k \in 1..Len(cs) : cs[k] = <<name, i>>

Before(cs, first, second, i) ==
    \A k \in 1..Len(cs) :
      cs[k] = <<second, i>> => \E j \in 1..(k - 1) : cs[j] = <<first, i>>

Failures == {"axios", "zod", "unknown"}

\* C12: once every started invocation of a hook has settled, whatever the
\* outcomes, the hook is not loading and is done; and every settled
\* invocation has left isDone true.
C12_NeverStuckLoading ==
    /\ AllDone(runs) => (~isLoading /\ isDone)
    /\ AllDone(mutRuns) => (~mutIsLoading /\ mutIsDone)
    /\ (\E i \in RunIds : runs[i].pc = "done") => isDone
    /\ (\E i \in MutRunIds : mutRuns[i].pc = "done") => mutIsDone

C12_Witness ==
    /\ AllDone(runs)
    /\ {runs[i].outcome : i \in RunIds} = {"canceled", "axios", "zod"}
    /\ ~isLoading /\ isDone

\* C14: an invocation whose params or body fail validation against the
\* definition's schema dispatches no transport request.
C14_InvalidInputNotDispatched ==
    /\ \A i \in RunIds :
         ~runs[i].valid => (~runs[i].dispatched /\ runs[i].pc = "done")
    /\ \A i \in MutRunIds :
         ~mutRuns[i].valid
           => (~mutRuns[i].dispatched /\ mutRuns[i].pc = "done")

C14_Witness ==
    \E i \in MutRunIds :
      /\ ~mutRuns[i].valid
      /\ mutRuns[i].outcome = "zod"
      /\ mutErrorMessage = [kind |-> "zod", by |-> i]
      /\ Has(mutCalls, "onZodError", i)

\* C15: for every failed invocation the call-site error callback is invoked
\* before the global one, and the call-site validation-error callback before
\* the global one.
C15_LocalBeforeGlobal ==
    /\ \A i \in RunIds :
         /\ Before(calls, "onError", "options.onError", i)
         /\ Before(calls, "onZodError", "options.onZodError", i)
         /\ runs[i].outcome \in Failures
              => Has(calls, "options.onError", i)
    /\ \A i \in MutRunIds :
         /\ Before(mutCalls, "onError", "options.onError", i)
         /\ Before(mutCalls, "onZodError", "options.onZodError", i)
         /\ mutRuns[i].outcome \in Failures
              => Has(mutCalls, "options.onError", i)

C15_Witness ==
    \E i \in RunIds :
      /\ runs[i].outcome = "zod"
      /\ runs[i].dispatched
      /\ Has(calls, "onZodError", i)
      /\ Has(calls, "options.onZodError", i)

RoutedAsClaimed(cs, i, outcome) ==
    /\ outcome = "zod"
         => /\ Has(cs, "onError", i) /\ Has(cs, "options.onError", i)
            /\ Has(cs, "onZodError", i) /\ Has(cs, "options.onZodError", i)
    /\ outcome \in {"axios", "unknown"}
         => (Has(cs, "onError", i) /\ Has(cs, "options.onError", i))
    /\ outcome # "zod"
         => (~Has(cs, "onZodError", i) /\ ~Has(cs, "options.onZodError", i))

\* C16: a validation failure reaches the generic and the validation-error
\* callbacks, call-site and global; a transport failure or another thrown
\* value reaches the generic callbacks only.
C16_ErrorRouting ==
    /\ \A i \in RunIds : RoutedAsClaimed(calls, i, runs[i].outcome)
    /\ \A i \in MutRunIds : RoutedAsClaimed(mutCalls, i, mutRuns[i].outcome)

C16_Witness ==
    \E i, j, k \in MutRunIds :
      /\ mutRuns[i].outcome = "zod"
      /\ mutRuns[j].outcome = "axios"
      /\ mutRuns[k].outcome = "unknown"

Settles(before, after, i) ==
    /\ i \in DOMAIN before => before[i].pc # "done"
    /\ after[i].pc = "done"

StoredAndResolved(r, i, msg, zod) ==
    r.outcome \in Failures
      => /\ r.promise = "resolved"
         /\ msg = [kind |-> r.outcome, by |-> i]
         /\ r.outcome = "zod" => zod = [kind |-> "zod", by |-> i]

\* C17: an invocation that ends in a transport, validation or unknown failure
\* stores the failure in errorMessage (and in the structured error for a
\* validation failure) and its promise resolves.
C17_FailuresAreStored ==
    [][ /\ \A i \in DOMAIN runs' :
             Settles(runs, runs', i)
               => StoredAndResolved(runs'[i], i, errorMessage', zodError')
        /\ \A i \in DOMAIN mutRuns' :
             Settles(mutRuns, mutRuns', i)
               => StoredAndResolved(mutRuns'[i], i, mutErrorMessage',
                                    mutZodError') ]_vars

C17_Witness ==
    \E i \in RunIds :
      /\ runs[i].outcome = "unknown"
      /\ runs[i].promise = "resolved"
      /\ errorMessage = [kind |-> "unknown", by |-> i]
      /\ ~isLoading

Silent(cs, i, msg) ==
    /\ msg.by # i
    /\ \A k \in 1..Len(cs) : cs[k][2] # i

\* C19: in a query hook and in a mutation hook alike, a transport failure
\* with code ERR_CANCELED leaves errorMessage unset and invokes no error
\* callback.
C19_CancellationIsSilent ==
    /\ \A i \in RunIds :
         runs[i].outcome = "canceled" => Silent(calls, i, errorMessage)
    /\ \A i \in MutRunIds :
         mutRuns[i].outcome = "canceled"
           => Silent(mutCalls, i, mutErrorMessage)

\* C24: uploadProgress is always a whole number from 0 to 100, and every
\* mutate() call that passes the loading guard leaves it at 0.
C24_UploadProgressInRange ==
    [][ /\ uploadProgress' \in 0..100
        /\ Len(mutRuns') > Len(mutRuns) => uploadProgress' = 0 ]_vars

C24_Witness ==
    /\ uploadProgress = 67
    /\ Len(mutRuns) = 2
    /\ mutRuns[1].pc = "done"
    /\ mutRuns[2].pc = "inflight"

ResultKept(before, after, old, new, cs) ==
    /\ \A i \in DOMAIN after :
         Settles(before, after, i) =>
           IF after[i].outcome = "success"
             THEN new = i /\ Has(cs, "onResult", i)
             ELSE new = old /\ ~Has(cs, "onResult", i)
    /\ new # old =>
         \E i \in DOMAIN after :
           Settles(before, after, i) /\ after[i].outcome = "success"
    /\ new = 0 \/ after[new].outcome = "success"

\* C25: result changes only when an invocation ends in success, to that
\* invocation's payload, with onResult invoked; an invocation that ends in a
\* transport, validation (response-schema mismatch included) or unknown
\* failure leaves result as it was and does not invoke onResult.
C25_ResultOnlyFromSuccess ==
    [][ /\ ResultKept(runs, runs', data, data', calls')
        /\ ResultKept(mutRuns, mutRuns', mutData, mutData', mutCalls') ]_vars

C25_Witness ==
    \E i, j \in RunIds :
      /\ i < j
      /\ runs[i].outcome = "success"
      /\ runs[j].outcome = "zod"
      /\ runs[j].dispatched
      /\ data = i

\* C26: at most one call to the refresh endpoint is in flight at any time,
\* and the refresh flag is set exactly while one is.
C26_OneRefreshInFlight ==
    /\ Cardinality(InFlightRefresh(requests)) <= 1
    /\ isRefreshingCsrf <=> InFlightRefresh(requests) # {}

C26_Witness ==
    \E a, b \in UserIds :
      /\ a # b
      /\ requests[a].st = "awaitRefresh"
      /\ requests[b].st = "awaitRefresh"
      /\ Cardinality(InFlightRefresh(requests)) = 1

(* ----------------------- claims: watcher and peers ---------------------- *)

\* C21: each change seen by the watcher of a hook created with params or
\* data leads to a refetch: at once where no debounce interval is configured;
\* where one is, the change starts no refetch itself but leaves the timer
\* running, and the expiry of the timer starts one refetch for all the
\* changes that were waiting for it.
C21_ChangesRefetchDebounced ==
    [][ /\ Len(changes') > Len(changes) =>
             IF queryOptions.debounce
               THEN /\ runs' = runs
                    /\ timer'
                    /\ changes'[Len(changes')] = 0
               ELSE /\ Len(runs') = Len(runs) + 1
                    /\ changes'[Len(changes')] = Len(runs')
        /\ (timer /\ ~timer') =>
             /\ Len(runs') = Len(runs) + 1
             /\ \A k \in DOMAIN changes :
                  changes[k] = 0 => changes'[k] = Len(runs')
        /\ (\E k \in DOMAIN changes' : changes'[k] = 0) => timer' ]_vars

C21_Witness ==
    /\ queryOptions.debounce
    /\ Len(changes) >= 2
    /\ changes[1] # 0
    /\ changes[1] = changes[2]
    /\ ~timer

Recovered(r) ==
    /\ Len(r.resp) = 2
    /\ r.resp[1] \in {403, 419}
    /\ r.resp[2] = OkStatus

\* C22: an invocation whose request failed with 403 or 419, was re-sent
\* after a successful refresh call and then answered with a success (whose
\* payload passes the response schema) ends as a success: result holds the
\* payload, errorMessage is undefined and no error callback was invoked.
C22_RecoveryIsTransparent ==
    \A i \in RunIds :
      ( /\ runs[i].pc = "done"
        /\ runs[i].req # 0
        /\ Recovered(requests[runs[i].req])
        /\ runs[i].outcome # "zod" )
      => /\ runs[i].outcome = "success"
         /\ data = i
         /\ errorMessage = Undefined
         /\ ~Has(calls, "onError", i)
         /\ ~Has(calls, "options.onError", i)

C22_Witness ==
    \E i \in RunIds :
      /\ runs[i].outcome = "success"
      /\ runs[i].req # 0
      /\ Recovered(requests[runs[i].req])
      /\ requests[runs[i].req].sends = <<FALSE, TRUE>>
      /\ data = i

ownState == <<data, errorMessage, zodError, isLoading, isDone,
              abortController, aborted, runs, calls>>

Keys(obj) == {obj[k].key : k \in DOMAIN obj}

\* what the claim says of one source object: before/after its replaceParams
Resolved(urlBefore, objBefore, urlAfter, objAfter) ==
    \A k \in DOMAIN objBefore :
      LET e == objBefore[k] IN
      IF Includes(urlBefore, e.key)
        THEN /\ ~Includes(urlAfter, e.key)
             /\ \E p \in DOMAIN urlAfter :
                  /\ urlBefore[p] = Token(e.key)
                  /\ urlAfter[p] = Lit(Encode(e.value))
             /\ e.key \notin Keys(objAfter)
        ELSE \E j \in DOMAIN objAfter : objAfter[j] = e

\* C27: for each source object, every {k} token of the URL whose key the
\* object has is replaced by the URL-encoded value and k is removed from the
\* object, so that no {k} token remains; keys without a token stay in the
\* object.
C27_PathResolved ==
    (output # <<>> /\ input.fn = "request" /\ input.config.url # <<>>) =>
      /\ input.config.method # "get" =>
           Resolved(input.config.url, input.config.dataParams,
                    output.mid, output.dataParams)
      /\ Resolved(output.mid, input.config.params,
                  output.url, output.params)

\* C28: the hook tree has a callable hook at exactly the key paths where the
\* definition tree has an endpoint definition, and a nested map at exactly the
\* key paths where the definition tree has a nested map.
C28_TreeShapePreserved ==
    (output # <<>> /\ input.fn = "createQueryHooks") =>
      \A p \in SeqsUpTo(TreeKeys, MaxDepth) \ {<<>>} :
        /\ [path |-> p, kind |-> "hook"] \in output.hooks
             <=> ValueAt(input.tree, p) = "endpoint"
        /\ [path |-> p, kind |-> "map"] \in output.hooks
             <=> ValueAt(input.tree, p) = "map"

C28_Witness ==
    /\ output # <<>>
    /\ input.fn = "createQueryHooks"
    /\ input.tree = {[path |-> <<"a", "b", "a">>, kind |-> "endpoint"]}
    /\ output.hooks = {[path |-> <<"a">>, kind |-> "map"],
                       [path |-> <<"a", "b">>, kind |-> "map"],
                       [path |-> <<"a", "b", "a">>, kind |-> "hook"]}

\* C29: for a validation failure on n >= 1 fields, errorMessage is the first
\* failing field's message, a full stop, and " (and n-1 more errors)" exactly
\* when n > 1.
C29_FirstMessageAndCount ==
    (output # <<>> /\ input.fn = "flattenError"
       /\ Len(input.fieldErrors) >= 1) =>
      /\ output.text = <<input.fieldErrors[1][1]>>
      /\ output.more = IF Len(input.fieldErrors) > 1
                         THEN Len(input.fieldErrors) - 1 ELSE 0

ClaimedOptionKeys ==
    {"loadOnMount", "debounce", "onResult", "onError", "onZodError",
     "onBeforeRequest", "params", "data"}

\* C30: an argument with at least one option key is the options object, so
\* the request params are its params entry; an argument with none is itself
\* the request params; {params: P} alone sends P.
C30_ArgumentDisambiguated ==
    (output # <<>> /\ input.fn = "useQuery") =>
      /\ input.arg \cap ClaimedOptionKeys # {} =>
           output.params = IF "params" \in input.arg
                             THEN [kind |-> "field", keys |-> {"params"}]
                             ELSE [kind |-> "undefined", keys |-> {}]
      /\ input.arg \cap ClaimedOptionKeys = {} =>
           output.params = [kind |-> "whole", keys |-> input.arg]
      /\ input.arg = {"params"} =>
           output.params = [kind |-> "field", keys |-> {"params"}]

C30_Witness ==
    /\ output # <<>>
    /\ input.fn = "useQuery"
    /\ input.arg = {"params"}
    /\ output.params.kind = "field"

\* the name of the k-th element of an array in a bracket path
Index(k) == <<"0", "1", "2", "3">>[k]

RECURSIVE LeavesOf(_, _)
\* the primitive values and files inside a value at path, each with the
\* bracket path p[f] of a member f and p[i] of the element at index i
LeavesOf(value, path) ==
    IF value.t \in Primitives THEN {[path |-> path, t |-> value.t]}
    ELSE UNION {LeavesOf(value.items[k],
                         Append(path, IF value.t = "array" THEN Index(k)
                                      ELSE value.items[k].key)) :
                  k \in DOMAIN value.items}

DataLeaves ==
    UNION {LeavesOf(input.data[k], <<input.data[k].key>>) :
             k \in DOMAIN input.data}

PartKeys == {output.requestData[k].key : k \in DOMAIN output.requestData}

\* C31: in a multipart body, a field whose value is undefined produces no
\* entry, at top level, inside nested objects and inside arrays.
C31_UndefinedOmitted ==
    (output # <<>> /\ input.fn = "mutate") =>
      \A leaf \in DataLeaves :
         leaf.t = "undefined" => leaf.path \notin PartKeys

\* C32: in a multipart body, every field of a nested object at path p is
\* sent under p[f] and every element of an array at path p under p[i], at
\* every depth.
C32_BracketPaths ==
    (output # <<>> /\ input.fn = "mutate") =>
      \A leaf \in DataLeaves :
         leaf.t # "undefined" => leaf.path \in PartKeys

\* the arguments that define an endpoint at key path p
Definers(p) ==
    {i \in DOMAIN input.objects :
       [path |-> p, kind |-> "endpoint", from |-> i] \in input.objects[i]}

\* every argument that has something at key path p or above it has a group
\* above p and an endpoint at p
GroupsAbove(p) ==
    \A i \in DOMAIN input.objects :
       \A f \in input.objects[i] :
          (IsPrefix(f.path, p) \/ IsPrefix(p, f.path)) => f.path = p

Latest(S) == CHOOSE i \in S : \A j \in S : j <= i

\* C33: mergeQueries and mergeMutations merge nested groups under the same
\* key recursively, keeping the endpoints of all arguments; where several
\* arguments define an endpoint at the same key path, the result has the
\* definition of the latest of them.
C33_MergeKeepsAllLaterWins ==
    (output # <<>> /\ input.fn = "deepMerge") =>
      \A p \in SeqsUpTo(TreeKeys, MaxMergeDepth) \ {<<>>} :
         (Definers(p) # {} /\ GroupsAbove(p)) =>
            /\ [path |-> p, kind |-> "endpoint", from |-> Latest(Definers(p))]
                 \in output.result
            /\ \A r \in output.result :
                  r.path = p => r.from = Latest(Definers(p))

\* two arguments with a group under the same key, one endpoint defined by
\* both and one by the first only
C33_Witness ==
    /\ output # <<>>
    /\ input.fn = "deepMerge"
    /\ Definers(<<"a", "a">>) = {1, 2}
    /\ Definers(<<"a", "b">>) = {1}
    /\ output.result =
         {[path |-> <<"a", "a">>, kind |-> "endpoint", from |-> 2],
          [path |-> <<"a", "b">>, kind |-> "endpoint", from |-> 1]}

\* C34: isLoading is true at every moment at which a request started by the
\* query hook instance is in flight and not aborted.
C34_LoadingWhileInFlight ==
    InFlight(runs, aborted) # {} => isLoading

Succeeded == {i \in RunIds : runs[i].outcome = "success"}

\* C35: once all requests of a query hook instance have settled, result holds
\* the payload of the most recently started invocation that succeeded: an
\* earlier invocation's response never overwrites a later one's.
C35_LatestSuccessWins ==
    (AllDone(runs) /\ Succeeded # {}) =>
      \A i \in Succeeded : i <= data

\* a before-request hook of invocation i throws in this step
HookThrows(before, after, i) ==
    /\ Settles(before, after, i)
    /\ after[i].outcome = "unknown"
    /\ after[i].cfg # <<>>

Succeeds(before, after, i) ==
    Settles(before, after, i) /\ after[i].outcome = "success"

\* C38: when an invocation completes successfully, errorMessage and the
\* structured validation error of its hook are both undefined, whatever
\* other invocations of the hook left there.
C38_SuccessLeavesNoError ==
    [][ /\ \A i \in DOMAIN runs' :
             Succeeds(runs, runs', i)
               => errorMessage' = Undefined /\ zodError' = Undefined
        /\ \A i \in DOMAIN mutRuns' :
             Succeeds(mutRuns, mutRuns', i)
               => mutErrorMessage' = Undefined /\ mutZodError' = Undefined
      ]_vars


=============================================================================
